---- MODULE Spec2Model ----
(***************************************************************************)
(* A model of the "selfish" card-game engine (src/src/game.rs and the      *)
(* modules it uses).  The state of a Game is a record g; every method of   *)
(* Game is an operator from a game record to the SET of game records the   *)
(* call can end in: one element per outcome of the random generator and    *)
(* per answer of the PlayerControllers queried on the way.  The driver     *)
(* Game::simulate is the state machine: one action per loop step.          *)
(*                                                                         *)
(* Hands and deck piles are Vec<GameCard> in the source.  The engine only  *)
(* ever tests membership, counts, removes the first card equal to a given  *)
(* one, removes a card at a random index or pops from a freshly shuffled   *)
(* pile, so a pile is modelled by its multiset: a function from the card   *)
(* kind to how many of it the Vec holds.  A pop from a shuffled pile and a *)
(* removal at a random index become the choice of any kind present.        *)
(***************************************************************************)
EXTENDS Integers, Sequences, FiniteSets, TLC

\* ------------------------------------------------------------------ bounds

\* Iterations of simulate's outer loop that draw a pickup card.
MaxTurns == 2

\* Actions a player is let play in one turn.
MaxActions == 2

\* Longest answer a controller gives to forced_discard.
MaxDiscardAnswer == 3

\* ------------------------------------------------------------------- cards

GameCard ==
  {"O1", "O2", "OxygenSiphon", "Shield", "HackSuit", "TractorBeam",
   "RocketBooster", "LaserBlast", "HoleInSuit", "Tether"}

SpaceCard ==
  {"BlankSpace", "UsefulJunk", "MysteriousNebula", "Hyperspace", "Meteoroid",
   "CosmicRadiation", "AsteroidField", "GravitationalAnomaly", "WormHole",
   "SolarFlare"}

Phase == {"Pickup", "Actions", "BreatheOrTravel"}

\* The cards GameDeck::new pushes, by kind (O2 is pushed by two loops of 10).
GameDeckNew ==
  [c \in GameCard |->
     CASE c = "O1" -> 38
       [] c = "O2" -> 10 + 10
       [] c = "OxygenSiphon" -> 3
       [] c = "Shield" -> 4
       [] c = "HackSuit" -> 3
       [] c = "TractorBeam" -> 4
       [] c = "RocketBooster" -> 4
       [] c = "LaserBlast" -> 4
       [] c = "HoleInSuit" -> 4
       [] c = "Tether" -> 4]

\* The cards SpaceDeck::new pushes, by kind.
SpaceDeckNew ==
  [s \in SpaceCard |->
     CASE s = "BlankSpace" -> 9
       [] s = "UsefulJunk" -> 5
       [] s = "MysteriousNebula" -> 2
       [] s = "Hyperspace" -> 1
       [] s = "Meteoroid" -> 4
       [] s = "CosmicRadiation" -> 6
       [] s = "AsteroidField" -> 2
       [] s = "GravitationalAnomaly" -> 4
       [] s = "WormHole" -> 4
       [] s = "SolarFlare" -> 5]

\* ------------------------------------------------------- piles as multisets

NoCards == [c \in GameCard |-> 0]

NoSpaceCards == [s \in SpaceCard |-> 0]

\* Vec::len of a hand or of a pile of the action deck.
Len_(pile) ==
  pile["O1"] + pile["O2"] + pile["OxygenSiphon"] + pile["Shield"] + pile["HackSuit"]
    + pile["TractorBeam"] + pile["RocketBooster"] + pile["LaserBlast"]
    + pile["HoleInSuit"] + pile["Tether"]

\* The multiset of a literal list of cards, e.g. Pile(<<"O1", "O1", "O2">>).
Pile(cards) ==
  [c \in GameCard |-> Cardinality({i \in DOMAIN cards : cards[i] = c})]

SpacePile(cards) ==
  [s \in SpaceCard |-> Cardinality({i \in DOMAIN cards : cards[i] = s})]

PileAdd(a, b) == [c \in DOMAIN a |-> a[c] + b[c]]

\* ----------------------------------------------------------------- errors

\* miette::Result<()>: Ok, a SelfishError, or a panic (assert, unwrap) that
\* ends the process.
Ok == [kind |-> "Ok", who |-> -1, card |-> "", expected |-> 0, actual |-> 0]

Err(kind) == [Ok EXCEPT !.kind = kind]

CantAttackYourself == Err("CantAttackYourself")

PlayerHasNoCardsLeft == Err("PlayerHasNoCardsLeft")

PlayerDoesNotHaveEnoughCards(p, count) ==
  [Ok EXCEPT !.kind = "PlayerDoesNotHaveEnoughCards", !.who = p, !.expected = count]

PlayerDoesNotHaveThisCard(card) ==
  [Ok EXCEPT !.kind = "PlayerDoesNotHaveThisCard", !.card = card]

PlayerDoesNotExist(p) == [Ok EXCEPT !.kind = "PlayerDoesNotExist", !.who = p]

InvalidDiscardCount(expected, actual) ==
  [Ok EXCEPT !.kind = "InvalidDiscardCount", !.expected = expected, !.actual = actual]

Panic(what) == [Ok EXCEPT !.kind = "Panic", !.card = what]

SelfishError ==
  {"CantAttackYourself", "PlayerHasNoCardsLeft", "PlayerDoesNotHaveEnoughCards",
   "PlayerDoesNotHaveThisCard", "PlayerDoesNotExist", "InvalidDiscardCount"}

\* --------------------------------------------------- outcomes of a method

\* g with the call failed: `?` and bail! return at once, nothing after runs.
Fail(g, e) == [g EXCEPT !.err = e]

\* S, then F on every outcome of S that returned Ok (the `?` operator).
Then(S, F(_)) == UNION {IF g.err.kind = "Ok" THEN F(g) ELSE {g} : g \in S}

\* What the run did on the way, oldest first: every controller query with its
\* answer, every card drawn or played, every death, each with the hand of the player it
\* is about, their track and the discard pile as they were at that moment.
Event(g, ev, who, what, n, cards) ==
  [ev |-> ev, who |-> who, what |-> what, n |-> n, cards |-> cards,
   hand |-> IF who \in DOMAIN g.players THEN g.players[who].hand ELSE NoCards,
   space |-> IF who \in DOMAIN g.players THEN g.players[who].space ELSE <<>>,
   state |-> <<>>,
   discard |-> g.game_deck.discard,
   whose_turn |-> g.whose_turn_reference]

Log(g, ev, who, what, n, cards) ==
  [g EXCEPT !.log = Append(@, Event(g, ev, who, what, n, cards))]

\* A controller query: the method asked, of which player's controller.
Ask(g, who, method) == Log(g, "ask", who, method, -1, <<>>)

\* ------------------------------------------------------- visible_state.rs

\* A faulty projection, which shows every hand: the property of the
\* VisibleState must tell it from the real one.
try_from_game_shows_hands(game) ==
  [whose_turn |-> game.whose_turn_reference,
   my_hand |-> game.players[game.whose_turn_reference].hand,
   players |-> [player_reference \in DOMAIN game.players |->
                  [hand_size |-> game.players[player_reference].hand,
                   space |-> game.players[player_reference].space,
                   alive |-> game.players[player_reference].alive]]]

\* VisibleState::try_from_game.
try_from_game(game) ==
  [whose_turn |-> game.whose_turn_reference,
   my_hand |-> game.players[game.whose_turn_reference].hand,
   players |-> [player_reference \in DOMAIN game.players |->
                  [hand_size |-> Len_(game.players[player_reference].hand),
                   space |-> game.players[player_reference].space,
                   alive |-> game.players[player_reference].alive]]]

\* simulate: self.visible_state()? handed to the current controller's
\* update_state.
update_state(g) ==
  [g EXCEPT !.log = Append(@, [Event(g, "update_state", g.whose_turn_reference, "", -1, <<>>)
                                 EXCEPT !.state = try_from_game(g)])]

\* -------------------------------------------------------------- player.rs

Player_new == [alive |-> TRUE, hand |-> NoCards, space |-> <<>>]

give(hand, card) == [hand EXCEPT ![card] = @ + 1]

has_card(hand, card) == hand[card] > 0

count_cards(hand, card) == hand[card]

\* The set of kinds in the hand, as shown to the controller by HackSuit.
unique_cards(hand) == {c \in GameCard : hand[c] > 0}

\* Player::remove_card without its error case: the caller tests has_card.
remove_one(hand, card) == [hand EXCEPT ![card] = @ - 1]

last_space_card(space) == IF space = <<>> THEN "None" ELSE space[Len(space)]

in_solar_flare(player) == last_space_card(player.space) = "SolarFlare"

\* Vec::pop on a track: nothing on an empty one.
pop(space) == IF space = <<>> THEN space ELSE SubSeq(space, 1, Len(space) - 1)

\* Player::remove_card on player p of g: PlayerDoesNotHaveThisCard when the
\* hand holds none.
remove_card(g, p, card) ==
  IF has_card(g.players[p].hand, card)
    THEN [g EXCEPT !.players[p].hand = remove_one(@, card)]
    ELSE Fail(g, PlayerDoesNotHaveThisCard(card))

give_to(g, p, card) == [g EXCEPT !.players[p].hand = give(@, card)]

\* ----------------------------------------------------------- game_cards.rs

\* A shuffled pile is a Vec whose order the random generator chose.  The model
\* keeps the multiset of the whole Vec and, in `top`, the cards the shuffle put
\* at its end, the next one popped first; below them the order is open, and a
\* pop that reaches there returns any kind left.

Count(cards, c) == Cardinality({i \in DOMAIN cards : cards[i] = c})

\* cards without its last c.
WithoutLast(cards, c) ==
  LET i == CHOOSE i \in DOMAIN cards :
             cards[i] = c /\ \A j \in DOMAIN cards : cards[j] = c => j <= i
  IN SubSeq(cards, 1, i - 1) \o SubSeq(cards, i + 1, Len(cards))

\* GameDeck::shuffled: the composition of GameDeck::new, nothing discarded.
GameDeck_shuffled(top) == [available |-> GameDeckNew, top |-> top, discard |-> NoCards]

add_to_discard(g, c) == [g EXCEPT !.game_deck.discard[c] = @ + 1]

\* GameDeck::take: the first card of that kind in the Vec leaves the available
\* pile; it is one of the top cards only when no other is left.
take(deck, c) ==
  LET left == [deck EXCEPT !.available[c] = @ - 1]
  IN IF left.available[c] >= Count(deck.top, c) THEN left
     ELSE [left EXCEPT !.top = WithoutLast(@, c)]

\* A faulty refill, which leaves the discard pile as it was: the property of
\* GameDeck::draw must tell it from the real one.
refilled_keeps_discard(deck) ==
  IF Len_(deck.available) = 0
    THEN [available |-> deck.discard, top |-> <<>>, discard |-> deck.discard]
    ELSE deck

\* The deck as GameDeck::draw leaves it before the pop: an empty available
\* pile takes the whole discard pile and is shuffled.
refilled(deck) ==
  IF Len_(deck.available) = 0
    THEN [available |-> deck.discard, top |-> <<>>, discard |-> NoCards]
    ELSE deck

\* GameDeck::draw: the kinds the pop can return.
drawable(deck) ==
  LET d == refilled(deck)
  IN IF d.top # <<>> THEN {Head(d.top)}
     ELSE {c \in GameCard : d.available[c] > 0}

\* GameDeck::draw returning card c.
draw(deck, c) ==
  [refilled(deck) EXCEPT !.available[c] = @ - 1,
                         !.top = IF @ = <<>> THEN @ ELSE Tail(@)]

\* ----------------------------------------------------------- space_cards.rs

\* SpaceDeck::shuffled: the composition of SpaceDeck::new.
SpaceDeck_shuffled(top) == [cards |-> SpaceDeckNew, top |-> top]

\* SpaceDeck::draw: the kinds the shuffled track deck can hand out next.
space_drawable(deck) ==
  IF deck.top # <<>> THEN {Head(deck.top)}
  ELSE {s \in SpaceCard : deck.cards[s] > 0}

\* SpaceDeck::draw returning card s: the card leaves the deck for good.
space_draw(deck, s) ==
  [deck EXCEPT !.cards[s] = @ - 1, !.top = IF @ = <<>> THEN @ ELSE Tail(@)]

\* ----------------------------------------------------------------- game.rs

PlayerReference(g) == DOMAIN g.players

current_player(g) == g.players[g.whose_turn_reference]

next_player(g) ==
  [g EXCEPT !.whose_turn_reference = (@ + 1) % Cardinality(DOMAIN g.players)]

alive_count(g) == Cardinality({p \in DOMAIN g.players : g.players[p].alive})

check_game_over(g) ==
  IF alive_count(g) = 1 THEN [g EXCEPT !.game_over = TRUE] ELSE g

\* Game::player_died: the flag, the game-over check, then the turn moves on.
player_died(g, p) ==
  IF p \notin DOMAIN g.players
    THEN {Fail(g, PlayerDoesNotExist(p))}
    ELSE LET dead == [g EXCEPT !.players[p].alive = FALSE]
         IN {next_player(check_game_over(Log(dead, "died", p, "", -1, <<>>)))}

\* Game::draw_card: a card from the action deck into the current hand.
draw_card(g) ==
  IF drawable(g.game_deck) = {}
    THEN {Fail(g, Panic("draw"))}
    ELSE {LET drawn == [g EXCEPT !.game_deck = draw(g.game_deck, c)]
          IN Log(give_to(drawn, g.whose_turn_reference, c),
                 "draw", g.whose_turn_reference, c, -1, <<>>)
          : c \in drawable(g.game_deck)}

\* Game::draw_card_phase.
draw_card_phase(g) ==
  IF g.phase # "Pickup"
    THEN {Fail(g, Panic("assert"))}
    ELSE Then(draw_card(g), LAMBDA h : {[h EXCEPT !.phase = "Actions"]})

\* A faulty swap_space, which copies one track and leaves the other.
swap_space_one_way(g, p1, p2) ==
  IF p1 \notin DOMAIN g.players THEN {Fail(g, PlayerDoesNotExist(p1))}
  ELSE IF p2 \notin DOMAIN g.players THEN {Fail(g, PlayerDoesNotExist(p2))}
  ELSE {[g EXCEPT !.players[p1].space = g.players[p2].space]}

\* Game::swap_space.
swap_space(g, p1, p2) ==
  IF p1 \notin DOMAIN g.players THEN {Fail(g, PlayerDoesNotExist(p1))}
  ELSE IF p2 \notin DOMAIN g.players THEN {Fail(g, PlayerDoesNotExist(p2))}
  ELSE LET p1_space == g.players[p1].space
           p2_space == g.players[p2].space
           first == [g EXCEPT !.players[p1].space = p2_space]
       IN {[first EXCEPT !.players[p2].space = p1_space]}

\* Game::discard_or_die, on the player whose turn it is when it is called.
discard_or_die(g, card) ==
  LET whose_turn_reference == g.whose_turn_reference
  IN IF has_card(current_player(g).hand, card)
       THEN {add_to_discard(remove_card(g, whose_turn_reference, card), card)}
       ELSE player_died(g, whose_turn_reference)

\* The answers of the right length a controller may give to forced_discard:
\* any two cards, held or not.
DiscardAnswers == [1..2 -> GameCard]

\* The other lengths an answer may have; the engine reads only the length.
WrongCounts == (0..MaxDiscardAnswer) \ {2}

\* The loop of the Meteoroid arm over the cards the controller returned.
RECURSIVE discard_each(_, _)
discard_each(g, cards) ==
  IF cards = <<>> \/ g.err.kind # "Ok" THEN g
  ELSE LET removed == remove_card(g, g.whose_turn_reference, Head(cards))
       IN IF removed.err.kind # "Ok" THEN removed
          ELSE discard_each(add_to_discard(removed, Head(cards)), Tail(cards))

\* A faulty Meteoroid arm, which spares a hand of seven: the property of the
\* Meteoroid must tell it from the real one.
meteoroid_spares_seven(g) ==
  IF Len_(current_player(g).hand) > 7
    THEN {discard_each(Log(g, "ask", g.whose_turn_reference, "forced_discard", 2, cards),
                       cards)
          : cards \in DiscardAnswers}
    ELSE {g}

\* The Meteoroid arm of Game::add_space.
meteoroid(g) ==
  IF Len_(current_player(g).hand) > 6
    THEN {discard_each(Log(g, "ask", g.whose_turn_reference, "forced_discard", 2, cards),
                       cards)
          : cards \in DiscardAnswers}
         \cup
         {Fail(Log(g, "ask", g.whose_turn_reference, "forced_discard", 2,
                   [i \in 1..actual |-> "O1"]),
               InvalidDiscardCount(2, actual))
          : actual \in WrongCounts}
    ELSE {g}

\* The WormHole arm of Game::add_space: the controller names any reference.
wormhole(g) ==
  UNION {swap_space(Log(g, "ask", g.whose_turn_reference,
                        "choose_player_to_swap_with", target_reference, <<>>),
                    g.whose_turn_reference, target_reference)
         : target_reference \in 0..Cardinality(DOMAIN g.players)}

\* A faulty add_space, whose Hyperspace draws nothing further: the property of
\* the Hyperspace must tell it from the real one.
add_space_without_jump(g) ==
  IF space_drawable(g.space_deck) = {}
    THEN {Fail(g, Panic("space_draw"))}
    ELSE UNION {
      LET whose_turn_reference == g.whose_turn_reference
          drawn == [g EXCEPT !.space_deck = space_draw(@, space_card),
                             !.players[whose_turn_reference].space = Append(@, space_card)]
          pushed == Log(drawn, "space", whose_turn_reference, space_card, -1, <<>>)
          done == CASE space_card \in {"BlankSpace", "Hyperspace", "SolarFlare"} -> {pushed}
            [] space_card = "UsefulJunk" -> draw_card(pushed)
            [] space_card = "MysteriousNebula" -> Then(draw_card(pushed), draw_card)
            [] space_card = "Meteoroid" -> meteoroid(pushed)
            [] space_card = "CosmicRadiation" -> discard_or_die(pushed, "O1")
            [] space_card = "AsteroidField" ->
                 Then(discard_or_die(pushed, "O1"), LAMBDA h : discard_or_die(h, "O1"))
            [] space_card = "GravitationalAnomaly" ->
                 {[pushed EXCEPT !.players[pushed.whose_turn_reference].space = pop(@)]}
            [] space_card = "WormHole" -> wormhole(pushed)
      IN {IF h.err.kind = "Ok"
            THEN Log(h, "space_done", whose_turn_reference, space_card, -1, <<>>)
            ELSE h : h \in done}
      : space_card \in space_drawable(g.space_deck)}

RECURSIVE add_space(_)

\* A faulty add_space, whose Hyperspace advances the traveller twice more.
add_space_twice(g) ==
  IF space_drawable(g.space_deck) = {}
    THEN {Fail(g, Panic("space_draw"))}
    ELSE UNION {
      LET whose_turn_reference == g.whose_turn_reference
          drawn == [g EXCEPT !.space_deck = space_draw(@, space_card),
                             !.players[whose_turn_reference].space = Append(@, space_card)]
          pushed == Log(drawn, "space", whose_turn_reference, space_card, -1, <<>>)
          done == CASE space_card = "BlankSpace" -> {pushed}
            [] space_card = "UsefulJunk" -> draw_card(pushed)
            [] space_card = "MysteriousNebula" -> Then(draw_card(pushed), draw_card)
            [] space_card = "Hyperspace" -> Then(add_space(pushed), add_space)
            [] space_card = "Meteoroid" -> meteoroid(pushed)
            [] space_card = "CosmicRadiation" -> discard_or_die(pushed, "O1")
            [] space_card = "AsteroidField" ->
                 Then(discard_or_die(pushed, "O1"), LAMBDA h : discard_or_die(h, "O1"))
            [] space_card = "GravitationalAnomaly" ->
                 {[pushed EXCEPT !.players[pushed.whose_turn_reference].space = pop(@)]}
            [] space_card = "WormHole" -> wormhole(pushed)
            [] space_card = "SolarFlare" -> {pushed}
      IN {IF h.err.kind = "Ok"
            THEN Log(h, "space_done", whose_turn_reference, space_card, -1, <<>>)
            ELSE h : h \in done}
      : space_card \in space_drawable(g.space_deck)}

\* Game::add_space.
add_space(g) ==
  IF space_drawable(g.space_deck) = {}
    THEN {Fail(g, Panic("space_draw"))}
    ELSE UNION {
      LET whose_turn_reference == g.whose_turn_reference
          drawn == [g EXCEPT !.space_deck = space_draw(@, space_card),
                             !.players[whose_turn_reference].space = Append(@, space_card)]
          pushed == Log(drawn, "space", whose_turn_reference, space_card, -1, <<>>)
          done == CASE space_card = "BlankSpace" -> {pushed}
            [] space_card = "UsefulJunk" -> draw_card(pushed)
            [] space_card = "MysteriousNebula" -> Then(draw_card(pushed), draw_card)
            [] space_card = "Hyperspace" -> add_space(pushed)
            [] space_card = "Meteoroid" -> meteoroid(pushed)
            [] space_card = "CosmicRadiation" -> discard_or_die(pushed, "O1")
            [] space_card = "AsteroidField" ->
                 Then(discard_or_die(pushed, "O1"), LAMBDA h : discard_or_die(h, "O1"))
            [] space_card = "GravitationalAnomaly" ->
                 {[pushed EXCEPT !.players[pushed.whose_turn_reference].space = pop(@)]}
            [] space_card = "WormHole" -> wormhole(pushed)
            [] space_card = "SolarFlare" -> {pushed}
      IN {IF h.err.kind = "Ok"
            THEN Log(h, "space_done", whose_turn_reference, space_card, -1, <<>>)
            ELSE h : h \in done}
      : space_card \in space_drawable(g.space_deck)}

\* -------------------------------------------------------------- actions.rs

TargetedKinds ==
  {"OxygenSiphon", "HackSuit", "TractorBeam", "LaserBlast", "HoleInSuit", "Tether"}

RocketBooster == [kind |-> "RocketBooster", target |-> -1]

\* Action::card.
card(a) ==
  CASE a.kind = "OxygenSiphon" -> "OxygenSiphon"
    [] a.kind = "HackSuit" -> "HackSuit"
    [] a.kind = "TractorBeam" -> "TractorBeam"
    [] a.kind = "RocketBooster" -> "RocketBooster"
    [] a.kind = "LaserBlast" -> "LaserBlast"
    [] a.kind = "HoleInSuit" -> "HoleInSuit"
    [] a.kind = "Tether" -> "Tether"

\* Action::attacking is Some(target).
attacking(a) == a.kind # "RocketBooster"

\* Action::rules().steal is Some(steal).
has_steal(a) == a.kind \in {"OxygenSiphon", "HackSuit", "TractorBeam"}

\* A faulty rule, which has an OxygenSiphon steal one card.
steal_count_one(a) == IF has_steal(a) THEN 1 ELSE 0

\* Action::rules().steal.count.
steal_count(a) ==
  CASE a.kind = "OxygenSiphon" -> 2
    [] a.kind = "HackSuit" -> 1
    [] a.kind = "TractorBeam" -> 1
    [] OTHER -> 0

\* ------------------------------------------------------ game.rs: action()

\* A can_player_defend that looks at the hand only.
can_player_defend_in_flare(g, p) == has_card(g.players[p].hand, "Shield")

\* Game::can_player_defend.
can_player_defend(g, p) ==
  LET has_shield_card == has_card(g.players[p].hand, "Shield")
  IN has_shield_card /\ ~in_solar_flare(g.players[p])

\* Game::discard: the card leaves the current player's hand; what reaches the
\* discard pile is an O1.
discard(g, c) ==
  LET removed == remove_card(Log(g, "discard", g.whose_turn_reference, c, -1, <<>>),
                             g.whose_turn_reference, c)
  IN IF removed.err.kind # "Ok" THEN {removed}
     ELSE {add_to_discard(removed, "O1")}

\* Faulty checks, which let a player attack themself: the property of the
\* self-attack must tell them from the real ones.
validate_any_target(g, a) ==
  IF ~attacking(a) THEN g
  ELSE IF a.target \notin DOMAIN g.players THEN Fail(g, PlayerDoesNotExist(a.target))
  ELSE IF has_steal(a) /\ steal_count(a) > Len_(g.players[a.target].hand)
    THEN Fail(g, PlayerDoesNotHaveEnoughCards(a.target, steal_count(a)))
  ELSE g

\* The checks of Game::action on an attacked player, before any change.
validate(g, a) ==
  IF ~attacking(a) THEN g
  ELSE IF a.target = g.whose_turn_reference THEN Fail(g, CantAttackYourself)
  ELSE IF a.target \notin DOMAIN g.players THEN Fail(g, PlayerDoesNotExist(a.target))
  ELSE IF has_steal(a) /\ steal_count(a) > Len_(g.players[a.target].hand)
    THEN Fail(g, PlayerDoesNotHaveEnoughCards(a.target, steal_count(a)))
  ELSE g

\* A faulty TractorBeam, which loses the card it takes: the property of the
\* TractorBeam must tell it from the real one.
tractor_beam_loses_card(g, target) ==
  IF Len_(g.players[target].hand) = 0
    THEN {Fail(g, PlayerHasNoCardsLeft)}
    ELSE {[g EXCEPT !.players[target].hand = remove_one(@, random_card)]
          : random_card \in unique_cards(g.players[target].hand)}

\* Game::remove_random_card / Player::remove_random_card, the card given to
\* the current player.
tractor_beam(g, target) ==
  IF Len_(g.players[target].hand) = 0
    THEN {Fail(g, PlayerHasNoCardsLeft)}
    ELSE {give_to([g EXCEPT !.players[target].hand = remove_one(@, random_card)],
                  g.whose_turn_reference, random_card)
          : random_card \in unique_cards(g.players[target].hand)}

\* A faulty OxygenSiphon, which hands the actor both O1 it takes.
oxygen_siphon_untaxed(g, target) ==
  LET n == count_cards(g.players[target].hand, "O1")
  IN CASE n = 0 -> player_died(g, target)
       [] n = 1 -> player_died(give_to(g, g.whose_turn_reference, "O1"), target)
       [] OTHER ->
            {give_to(give_to([g EXCEPT !.players[target].hand =
                                         remove_one(remove_one(@, "O1"), "O1")],
                             g.whose_turn_reference, "O1"),
                     g.whose_turn_reference, "O1")}

\* The OxygenSiphon arm of Game::action.
oxygen_siphon(g, target) ==
  LET n == count_cards(g.players[target].hand, "O1")
  IN CASE n = 0 -> player_died(g, target)
       [] n = 1 -> player_died(give_to(g, g.whose_turn_reference, "O1"), target)
       [] OTHER ->
            {give_to([g EXCEPT !.players[target].hand =
                                 remove_one(remove_one(@, "O1"), "O1")],
                     g.whose_turn_reference, "O1")}

hack_suit(g, target) ==
  UNION {LET asked == Log(g, "ask", g.whose_turn_reference, "choose_card_to_take",
                          -1, <<c>>)
             taken == remove_card(asked, target, c)
         IN IF taken.err.kind # "Ok" THEN {taken}
            ELSE {give_to(taken, taken.whose_turn_reference, c)}
         : c \in GameCard}

\* The match of Game::action on the action, run when the attack is not
\* defended.
effect(g, a) ==
  CASE a.kind = "OxygenSiphon" -> oxygen_siphon(g, a.target)
    [] a.kind = "HackSuit" -> hack_suit(g, a.target)
    [] a.kind = "TractorBeam" -> tractor_beam(g, a.target)
    [] a.kind = "RocketBooster" -> add_space(g)
    [] a.kind = "LaserBlast" -> {[g EXCEPT !.players[a.target].space = pop(@)]}
    [] a.kind = "HoleInSuit" -> {g}
    [] a.kind = "Tether" -> {g}

\* The defender's Shield leaves their hand for the discard pile.
shield(g, p) == add_to_discard(remove_card(g, p, "Shield"), "Shield")

\* Game::action.
action(g, a) ==
  IF g.phase # "Actions" THEN {Fail(g, Panic("assert"))}
  ELSE LET checked == validate(g, a)
       IN IF checked.err.kind # "Ok" THEN {checked}
          ELSE IF attacking(a) /\ can_player_defend(g, a.target)
            THEN Then({shield(Log(g, "ask", a.target, "defend", 1, <<>>), a.target)},
                      LAMBDA h : discard(h, card(a)))
                 \cup
                 Then(effect(Log(g, "ask", a.target, "defend", 0, <<>>), a),
                      LAMBDA h : discard(h, card(a)))
            ELSE Then(effect(g, a), LAMBDA h : discard(h, card(a)))

\* ------------------------------------------- game.rs: breathe_or_travel()

breathe(g) ==
  LET removed == remove_card(g, g.whose_turn_reference, "O1")
  IN IF removed.err.kind # "Ok" THEN {removed}
     ELSE {add_to_discard(removed, "O1")}

\* The Travel arm: the O2 leaves the hand, an O1 reaches the discard pile.
travel(g) ==
  LET removed == remove_card(g, g.whose_turn_reference, "O2")
  IN IF removed.err.kind # "Ok" THEN {removed}
     ELSE add_space(add_to_discard(removed, "O1"))

\* A faulty breathe_or_travel, which leaves the phase at BreatheOrTravel.
breathe_or_travel_stays(g) ==
  IF g.phase # "Actions" THEN {Fail(g, Panic("assert"))}
  ELSE LET entered == [g EXCEPT !.phase = "BreatheOrTravel"]
           whose_turn_reference == g.whose_turn_reference
           has_o1 == has_card(current_player(g).hand, "O1")
           has_o2 == has_card(current_player(g).hand, "O2")
           asked(choice) ==
             Log(entered, "ask", whose_turn_reference, "breathe_or_travel",
                 -1, <<choice>>)
           played ==
             CASE ~has_o1 /\ ~has_o2 -> player_died(entered, whose_turn_reference)
               [] has_o1 /\ ~has_o2 -> breathe(entered)
               [] ~has_o1 /\ has_o2 -> travel(entered)
               [] has_o1 /\ has_o2 ->
                    breathe(asked("Breathe")) \cup travel(asked("Travel"))
       IN Then(played, LAMBDA h : {next_player(h)})

\* Game::breathe_or_travel.
breathe_or_travel(g) ==
  IF g.phase # "Actions" THEN {Fail(g, Panic("assert"))}
  ELSE LET entered == [g EXCEPT !.phase = "BreatheOrTravel"]
           whose_turn_reference == g.whose_turn_reference
           has_o1 == has_card(current_player(g).hand, "O1")
           has_o2 == has_card(current_player(g).hand, "O2")
           asked(choice) ==
             Log(entered, "ask", whose_turn_reference, "breathe_or_travel",
                 -1, <<choice>>)
           played ==
             CASE ~has_o1 /\ ~has_o2 -> player_died(entered, whose_turn_reference)
               [] has_o1 /\ ~has_o2 -> breathe(entered)
               [] ~has_o1 /\ has_o2 -> travel(entered)
               [] has_o1 /\ has_o2 ->
                    breathe(asked("Breathe")) \cup travel(asked("Travel"))
       IN Then(played, LAMBDA h : {next_player([h EXCEPT !.phase = "Pickup"])})

\* ---------------------------------------------------- game.rs: Game::new

\* The hand Game::new deals to every player: one O2, then four O1.
Dealt == Pile(<<"O2", "O1", "O1", "O1", "O1">>)

\* A faulty deal, which leaves the dealt cards in the deck.
deal_nothing(deck, n) == deck

RECURSIVE deal(_, _)
deal(deck, n) ==
  IF n = 0 THEN deck
  ELSE deal(take(take(take(take(take(deck, "O2"), "O1"), "O1"), "O1"), "O1"), n - 1)

\* Game::new for n controllers, with a seed whose shuffles put game_top on the
\* action deck and space_top on the track deck.
Game_new(n, seed) ==
  [players |-> [p \in 0..(n - 1) |-> [Player_new EXCEPT !.hand = Dealt]],
   game_deck |-> deal(GameDeck_shuffled(seed.game_top), n),
   space_deck |-> SpaceDeck_shuffled(seed.space_top),
   whose_turn_reference |-> 0,
   phase |-> "Pickup",
   game_over |-> FALSE,
   err |-> Ok,
   log |-> <<>>]

\* ------------------------------------------------------------- the machine

VARIABLES
  players,               \* Game.players: alive, hand, space of each player
  game_deck,             \* Game.game_deck: the available and the discard pile
  space_deck,            \* Game.space_deck
  whose_turn_reference,  \* Game.whose_turn_reference
  phase,                 \* Game.phase
  game_over,             \* Game.game_over
  pc,                    \* where Game::simulate stands
  turns,                 \* pickups so far
  actions_played,        \* actions played since the last pickup
  began,                 \* who picked up at the start of the latest turn
  last                   \* the step just taken: the call, its result, its log

vars ==
  <<players, game_deck, space_deck, whose_turn_reference, phase, game_over,
    pc, turns, actions_played, began, last>>

\* The Game the variables hold, as a method receives it.
Game ==
  [players |-> players, game_deck |-> game_deck, space_deck |-> space_deck,
   whose_turn_reference |-> whose_turn_reference, phase |-> phase,
   game_over |-> game_over, err |-> Ok, log |-> <<>>]

NoAction == [kind |-> "None", target |-> -1]

\* The Game a method leaves behind, and the record of the call.
Becomes(h, op, a) ==
  /\ players' = h.players
  /\ game_deck' = h.game_deck
  /\ space_deck' = h.space_deck
  /\ whose_turn_reference' = h.whose_turn_reference
  /\ phase' = h.phase
  /\ game_over' = h.game_over
  /\ last' = [op |-> op, who |-> whose_turn_reference, act |-> a,
              err |-> h.err, log |-> h.log]

\* What a controller may answer to play_action: any action on any reference,
\* one past the roster included.
Actions ==
  {[kind |-> k, target |-> t] : k \in TargetedKinds, t \in 0..Cardinality(DOMAIN players)}
    \cup {RocketBooster}

\* simulate, top of the loop: `while !self.game_over` ends the run.
Return ==
  /\ pc = "loop"
  /\ game_over
  /\ pc' = "returned"
  /\ Becomes(Game, "return", NoAction)
  /\ UNCHANGED <<turns, actions_played, began>>

\* simulate, top of the loop: a dead current player is passed over.
SkipDead ==
  /\ pc = "loop"
  /\ ~game_over
  /\ ~current_player(Game).alive
  /\ Becomes(next_player(Game), "skip", NoAction)
  /\ UNCHANGED <<pc, turns, actions_played, began>>

\* simulate, top of the loop: the living current player picks up a card.
Pickup ==
  /\ pc = "loop"
  /\ ~game_over
  /\ current_player(Game).alive
  /\ turns < MaxTurns
  /\ \E h \in draw_card_phase(Game) :
       /\ Becomes(h, "pickup", NoAction)
       /\ pc' = IF h.err.kind = "Ok" THEN "actions" ELSE "panicked"
  /\ turns' = turns + 1
  /\ actions_played' = 0
  /\ began' = whose_turn_reference

\* simulate, the actions loop: a player in a solar flare gets no action.
InSolarFlare ==
  /\ pc = "actions"
  /\ in_solar_flare(current_player(Game))
  /\ pc' = "breathe_or_travel"
  /\ Becomes(Game, "flare", NoAction)
  /\ UNCHANGED <<turns, actions_played, began>>

\* simulate, the actions loop: the controller is shown the state and passes.
Pass ==
  /\ pc = "actions"
  /\ ~in_solar_flare(current_player(Game))
  /\ pc' = "breathe_or_travel"
  /\ Becomes(Ask(update_state(Game),
                 whose_turn_reference, "play_action"),
             "pass", NoAction)
  /\ UNCHANGED <<turns, actions_played, began>>

\* simulate, the actions loop: the controller is shown the state and names an
\* action, which Game::action applies; an error ends the loop.
PlayAction ==
  /\ pc = "actions"
  /\ actions_played < MaxActions
  /\ ~in_solar_flare(current_player(Game))
  /\ \E a \in Actions :
       \E h \in action(Ask(update_state(Game),
                           whose_turn_reference, "play_action"), a) :
         /\ Becomes(h, "action", a)
         /\ pc' = CASE h.err.kind = "Ok" -> "actions"
                    [] h.err.kind = "Panic" -> "panicked"
                    [] OTHER -> "breathe_or_travel"
  /\ actions_played' = actions_played + 1
  /\ UNCHANGED <<turns, began>>

\* simulate: self.breathe_or_travel()?, whose error ends simulate.
BreatheOrTravel ==
  /\ pc = "breathe_or_travel"
  /\ \E h \in breathe_or_travel(Game) :
       /\ Becomes(h, "breathe_or_travel", NoAction)
       /\ pc' = CASE h.err.kind = "Ok" -> "loop"
                  [] h.err.kind = "Panic" -> "panicked"
                  [] OTHER -> "failed"
  /\ UNCHANGED <<turns, actions_played, began>>

Next ==
  \/ Return
  \/ SkipDead
  \/ Pickup
  \/ InSolarFlare
  \/ Pass
  \/ PlayAction
  \/ BreatheOrTravel

Start(g, t) ==
  /\ players = g.players
  /\ game_deck = g.game_deck
  /\ space_deck = g.space_deck
  /\ whose_turn_reference = g.whose_turn_reference
  /\ phase = g.phase
  /\ game_over = g.game_over
  /\ pc = "loop"
  /\ turns = t
  /\ actions_played = 0
  /\ began = -1
  /\ last = [op |-> "new", who |-> g.whose_turn_reference, act |-> NoAction,
             err |-> Ok, log |-> <<>>]

\* The seeds explored for a new game: what their shuffles put on top.
Seeds ==
  {[game_top |-> g, space_top |-> s] :
     g \in {<<"RocketBooster", "Shield", "O1", "O1", "O2", "Tether">>,
            <<"OxygenSiphon", "LaserBlast", "O1", "HackSuit", "O2", "O1">>},
     s \in {<<"MysteriousNebula", "SolarFlare", "BlankSpace", "BlankSpace">>,
            <<"Hyperspace", "UsefulJunk", "WormHole", "CosmicRadiation">>}}

\* The numbers of players of the new games explored.
Tables == {2, 3}

\* A new game.
InitNew == \E n \in Tables : \E seed \in Seeds : Start(Game_new(n, seed), MaxTurns - 1)

\* ------------------------------------------------------ games in progress

\* Hands a player can be left with in the course of a game.
Rich == Pile(<<"O1", "O1", "O1", "O2", "Shield", "TractorBeam", "OxygenSiphon">>)

Mid == Pile(<<"O1", "O1", "O2", "HackSuit">>)

Poor == Pile(<<"O1", "OxygenSiphon">>)

Dry == Pile(<<"O2", "Shield">>)

Bare == NoCards

Boosted == Pile(<<"O1", "O2", "RocketBooster", "RocketBooster">>)

\* The track deck late in a game: the cards named on top, blank space below.
SpaceDeck_late(top) ==
  [cards |-> [SpacePile(top) EXCEPT !["BlankSpace"] = @ + 4], top |-> top]

\* The action deck late in a game: a few cards left to draw, oxygen and a
\* shield discarded since the last reshuffle.
GameDeck_late(top) ==
  [available |-> Pile(top), top |-> top, discard |-> Pile(<<"O1", "O1", "Shield">>)]

\* A game in progress at the top of simulate's loop: player 0 to move.
Game_late(hands, spaces, space_top) ==
  [players |-> [p \in 0..(Len(hands) - 1) |->
                  [alive |-> TRUE, hand |-> hands[p + 1], space |-> spaces[p + 1]]],
   game_deck |-> GameDeck_late(<<"Shield", "O1", "RocketBooster">>),
   space_deck |-> SpaceDeck_late(space_top),
   whose_turn_reference |-> 0,
   phase |-> "Pickup",
   game_over |-> FALSE,
   err |-> Ok,
   log |-> <<>>]

\* Every pairing of an acting and an attacked hand, at a table of two and of
\* three, the attacked player in a solar flare or not.
Attacks ==
  {Game_late(hands, <<<<>>, space, <<"BlankSpace">>>>, <<"BlankSpace">>) :
     hands \in {<<a, t>> : a \in {Rich, Poor, Dry, Bare}, t \in {Rich, Poor, Dry, Bare}}
          \cup {<<a, t, Mid>> : a \in {Rich, Poor, Dry, Bare}, t \in {Rich, Poor, Dry, Bare}},
     space \in {<<>>, <<"UsefulJunk", "SolarFlare">>}}

\* Every space card on top of the track deck, and every card after a
\* Hyperspace, for a traveller with a large hand and one without an O1.
Travels ==
  {Game_late(<<a, t, Mid>>, <<<<>>, <<"UsefulJunk">>, <<"BlankSpace">>>>, top) :
     a \in {Rich, Dry}, t \in {Poor, Dry},
     top \in {<<s>> : s \in SpaceCard} \cup {<<"Hyperspace", s>> : s \in SpaceCard}}

\* Two players left, short of oxygen, and a dangerous card on the track deck.
Duels ==
  {Game_late(<<a, t>>, <<<<>>, <<"BlankSpace">>>>, top) :
     a \in {Poor, Dry}, t \in {Poor, Dry},
     top \in {<<"AsteroidField">>, <<"CosmicRadiation">>, <<"WormHole">>}}

\* Tables of three with little oxygen left, followed for two turns.
Rounds ==
  {Game_late(<<a, t, Mid>>, <<<<>>, <<>>, <<"BlankSpace">>>>, <<"BlankSpace">>) :
     a \in {Poor, Bare}, t \in {Poor, Bare}}

\* A player with rocket boosters and a solar flare one or two cards down the
\* track deck.
Boosts ==
  {Game_late(<<Boosted, t>>, <<<<>>, <<"BlankSpace">>>>, top) :
     t \in {Rich, Dry},
     top \in {<<"SolarFlare">>, <<"Hyperspace", "SolarFlare">>,
              <<"UsefulJunk", "SolarFlare">>}}

\* Games whose available pile has just run out: the next draw reshuffles.
Reshuffles ==
  {[Game_late(hands, <<<<>>, <<>>, <<>>>>, <<"UsefulJunk">>)
      EXCEPT !.game_deck = GameDeck_late(<<>>)] :
     hands \in {<<Poor, Dry>>, <<Rich, Poor, Mid>>}}

Init ==
  \/ InitNew
  \/ \E g \in Reshuffles : Start(g, MaxTurns - 1)
  \/ \E g \in Attacks : Start(g, MaxTurns - 1)
  \/ \E g \in Travels : Start(g, MaxTurns - 1)
  \/ \E g \in Duels : Start(g, MaxTurns - 1)
  \/ \E g \in Boosts : Start(g, MaxTurns - 1)
  \/ \E g \in Rounds : Start(g, MaxTurns - 2)

Spec == Init /\ [][Next]_vars

\* ----------------------------------------------------------- properties

\* The players other than p, counted from p round the table, up to the first
\* living one.
FirstLivingAfter(p) ==
  LET n == Cardinality(DOMAIN players)
      d == CHOOSE d \in 1..n :
             /\ players[(p + d) % n].alive
             /\ \A e \in 1..(d - 1) : ~players[(p + e) % n].alive
  IN (p + d) % n

\* C1: every turn is begun (its pickup made) by a living player, and the
\* player who begins a turn is the first living player, cyclically, after the
\* player who began the turn before it: no living player is skipped, also
\* when the previous player was eliminated in their own turn.
TurnOrder ==
  [][last'.op = "pickup" =>
       /\ players[whose_turn_reference].alive
       /\ began # -1 => whose_turn_reference = FirstLivingAfter(began)]_vars

\* How many cards of a kind the players of ps hold.
RECURSIVE InHands(_, _, _)
InHands(ps, n, kind) ==
  IF n = 0 THEN 0 ELSE ps[n - 1].hand[kind] + InHands(ps, n - 1, kind)

\* How many cards of a kind the hands and the two piles of the action deck
\* hold together.
Total(ps, deck, kind) ==
  InHands(ps, Cardinality(DOMAIN ps), kind) + deck.available[kind]
    + deck.discard[kind]

\* C2: for each kind of action card, the number of cards of that kind in all
\* hands, the available pile and the discard pile together is the one of the
\* initial composition in a new game, and no pickup, action, breathe, travel,
\* forced discard or discard-or-die changes it.
Conservation ==
  [][\A kind \in GameCard :
       /\ last.op = "new" /\ game_deck.discard = NoCards =>
            Total(players, game_deck, kind) = GameDeckNew[kind]
       /\ Total(players', game_deck', kind) = Total(players, game_deck, kind)]_vars

\* C3: game_over is true exactly in the states where one player is alive: it
\* is never true with nobody alive, and it is true as soon as an elimination
\* leaves one living player.
GameOverIsOneAlive == game_over <=> alive_count(Game) = 1

\* The step just taken is a call of Game::action with a targeted action.
Attacked == last.op = "action" /\ attacking(last.act)

\* The queries Game::action made of a controller in a logged call: those after
\* simulate's own update_state and play_action.
Queries(log) == {i \in 3..Len(log) : log[i].ev = "ask"}

\* The attacked player answered defend with true.
Defended(log) ==
  \E i \in DOMAIN log : log[i].ev = "ask" /\ log[i].what = "defend" /\ log[i].n = 1

\* C5: action() with a targeted action whose target is the player whose turn
\* it is returns CantAttackYourself, changes no hand, track or alive flag,
\* neither deck, not whose_turn nor the phase, and queries no controller.
SelfAttack ==
  [][Attacked' /\ last'.act.target = whose_turn_reference =>
       /\ last'.err = CantAttackYourself
       /\ UNCHANGED <<players, game_deck, space_deck, whose_turn_reference, phase>>
       /\ Queries(last'.log) = {}]_vars

\* A player has just been refused an attack on themself.
SelfAttackRefused ==
  /\ Attacked
  /\ last.act.target = last.who
  /\ last.err = CantAttackYourself

\* C6: when action() returns a game-rule error, no hand, track or alive flag,
\* neither pile of the action deck, not the space deck nor whose_turn differs
\* from what it was before the call.
ErrorsChangeNothing ==
  [][last'.op = "action"
       /\ last'.err.kind \in {"CantAttackYourself", "PlayerDoesNotHaveEnoughCards",
                              "PlayerDoesNotExist", "PlayerDoesNotHaveThisCard",
                              "PlayerHasNoCardsLeft"} =>
       UNCHANGED <<players, game_deck, space_deck, whose_turn_reference>>]_vars

\* C7: when a targeted action passes the checks of action(), the target can
\* defend and answers defend with true, the target's hand loses one Shield and
\* nothing else, the actor's hand loses one card of the action's kind and
\* nothing else, and no other hand, no track and no alive flag changes.
DefendedAttack ==
  [][(/\ Attacked'
      /\ validate(Game, last'.act).err = Ok
      /\ can_player_defend(Game, last'.act.target)
      /\ Defended(last'.log)) =>
       LET target == last'.act.target
           actor == whose_turn_reference
       IN /\ players'[target].hand = remove_one(players[target].hand, "Shield")
          /\ players'[actor].hand = remove_one(players[actor].hand, card(last'.act))
          /\ \A p \in DOMAIN players :
               /\ p \notin {target, actor} => players'[p].hand = players[p].hand
               /\ players'[p].space = players[p].space
               /\ players'[p].alive = players[p].alive]_vars

\* C8: an undefended OxygenSiphon that passes the checks of action(), played
\* by a holder of the card: a target with exactly one O1 loses it to the actor
\* and is eliminated; a target with no O1 is eliminated and the actor gains no
\* card.
SiphonLastOxygen ==
  [][(/\ Attacked'
      /\ last'.act.kind = "OxygenSiphon"
      /\ validate(Game, last'.act).err = Ok
      /\ has_card(players[whose_turn_reference].hand, "OxygenSiphon")
      /\ ~Defended(last'.log)) =>
       LET target == last'.act.target
           actor == whose_turn_reference
           n == count_cards(players[target].hand, "O1")
       IN /\ n = 1 => /\ players'[actor].hand["O1"] = players[actor].hand["O1"] + 1
                      /\ players'[target].hand["O1"] = 0
                      /\ ~players'[target].alive
          /\ n = 0 => /\ ~players'[target].alive
                      /\ \A c \in GameCard :
                           players'[actor].hand[c] <= players[actor].hand[c]]_vars

\* C9: an undefended TractorBeam by a holder of the card on another player
\* with at least one card: the target's hand is one card smaller, the actor's
\* hand is as large as before, holding one card that was the target's in place
\* of the TractorBeam, and no other hand changes.
TractorBeamSteals ==
  [][(/\ Attacked'
      /\ last'.act.kind = "TractorBeam"
      /\ last'.act.target \in DOMAIN players \ {whose_turn_reference}
      /\ has_card(players[whose_turn_reference].hand, "TractorBeam")
      /\ Len_(players[last'.act.target].hand) >= 1
      /\ ~Defended(last'.log)) =>
       LET target == last'.act.target
           actor == whose_turn_reference
       IN /\ Len_(players'[target].hand) = Len_(players[target].hand) - 1
          /\ Len_(players'[actor].hand) = Len_(players[actor].hand)
          /\ \E c \in unique_cards(players[target].hand) :
               /\ players'[target].hand = remove_one(players[target].hand, c)
               /\ players'[actor].hand =
                    remove_one(give(players[actor].hand, c), "TractorBeam")
          /\ \A p \in DOMAIN players \ {target, actor} :
               players'[p].hand = players[p].hand]_vars

\* A holder of a TractorBeam has just played it, undefended, and it worked.
TractorBeamPlayed ==
  /\ Attacked
  /\ last.act.kind = "TractorBeam"
  /\ last.act.target # last.who
  /\ has_card(last.log[1].hand, "TractorBeam")
  /\ ~Defended(last.log)
  /\ last.err = Ok

\* The cards of an answer are all in the hand.
FromHand(cards, hand) == \A c \in GameCard : Pile(cards)[c] <= hand[c]

\* C10: when the traveller draws a Meteoroid with six cards or fewer, no
\* controller is asked and the hand stays as it is; with more than six the
\* controller is asked for 2 cards, and two cards of the hand returned leave
\* the hand for the discard pile, while any other number of cards returned
\* gives InvalidDiscardCount{expected: 2, actual: n} with the hand and the
\* discard pile as they were.
MeteoroidDiscard ==
  \A i \in DOMAIN last.log :
    LET log == last.log
        drawn == log[i]
    IN drawn.ev = "space" /\ drawn.what = "Meteoroid" =>
         IF Len_(drawn.hand) <= 6
           THEN /\ i + 1 \in DOMAIN log
                /\ log[i + 1].ev = "space_done"
                /\ log[i + 1].hand = drawn.hand
           ELSE /\ i + 1 \in DOMAIN log
                /\ log[i + 1].ev = "ask"
                /\ log[i + 1].who = drawn.who
                /\ log[i + 1].what = "forced_discard"
                /\ log[i + 1].n = 2
                /\ LET cards == log[i + 1].cards
                   IN /\ Len(cards) = 2 /\ FromHand(cards, drawn.hand) =>
                           /\ i + 2 \in DOMAIN log
                           /\ log[i + 2].ev = "space_done"
                           /\ log[i + 2].hand =
                                [c \in GameCard |-> drawn.hand[c] - Pile(cards)[c]]
                           /\ log[i + 2].discard =
                                [c \in GameCard |-> drawn.discard[c] + Pile(cards)[c]]
                      /\ Len(cards) # 2 =>
                           /\ last.err = InvalidDiscardCount(2, Len(cards))
                           /\ players[drawn.who].hand = drawn.hand
                           /\ game_deck.discard = drawn.discard

\* A traveller with more than six cards has just drawn a Meteoroid and
\* discarded two cards of their hand.
MeteoroidDiscarded ==
  \E i \in DOMAIN last.log :
    /\ last.log[i].ev = "space" /\ last.log[i].what = "Meteoroid"
    /\ Len_(last.log[i].hand) > 6
    /\ i + 2 \in DOMAIN last.log
    /\ Len(last.log[i + 1].cards) = 2
    /\ FromHand(last.log[i + 1].cards, last.log[i].hand)
    /\ last.log[i + 2].ev = "space_done"

\* The draws of a kind of space card, and the completions of their advances,
\* among the events i..j of a log.
Drawn(log, i, j, kind) ==
  {k \in i..j : log[k].ev = "space" /\ log[k].what = kind}

Completed(log, i, j, kind) ==
  {k \in i..j : log[k].ev = "space_done" /\ log[k].what = kind}

\* Event j of the log is the completion of the advance that drew a Hyperspace
\* at event i.
Completes(log, i, j) ==
  /\ log[i].ev = "space" /\ log[i].what = "Hyperspace"
  /\ j > i
  /\ log[j].ev = "space_done" /\ log[j].what = "Hyperspace"
  /\ Cardinality(Drawn(log, i, j, "Hyperspace"))
       = Cardinality(Completed(log, i, j, "Hyperspace"))
  /\ \A k \in (i + 1)..(j - 1) :
       Cardinality(Drawn(log, i, k, "Hyperspace"))
         > Cardinality(Completed(log, i, k, "Hyperspace"))

\* C11 as stated: when an advance that drew a Hyperspace completes, the
\* traveller's track is at least two entries longer than before the advance,
\* whatever the chained card is.  (The track logged at the draw already holds
\* the Hyperspace.)
HyperspaceTwoLonger ==
  \A i, j \in DOMAIN last.log :
    Completes(last.log, i, j) =>
      Len(last.log[j].space) >= Len(last.log[i].space) + 1

\* C11: a Hyperspace is followed at once by the draw of a further space card,
\* appended to the traveller's track after the Hyperspace; when the advance
\* completes the track is at least two entries longer than before it unless a
\* GravitationalAnomaly or a WormHole was drawn in the chain.
HyperspaceChains ==
  \A i \in DOMAIN last.log :
    LET log == last.log
    IN log[i].ev = "space" /\ log[i].what = "Hyperspace" =>
         /\ i + 1 \in DOMAIN log =>
              /\ log[i + 1].ev = "space"
              /\ log[i + 1].who = log[i].who
              /\ log[i + 1].space = Append(log[i].space, log[i + 1].what)
         /\ i + 1 \notin DOMAIN log => last.err.kind = "Panic"
         /\ \A j \in DOMAIN log :
              /\ Completes(log, i, j)
              /\ Drawn(log, i, j, "GravitationalAnomaly") = {}
              /\ Drawn(log, i, j, "WormHole") = {}
              => Len(log[j].space) >= Len(log[i].space) + 1

\* A traveller has drawn a Hyperspace and, after it, a card that is neither a
\* GravitationalAnomaly nor a WormHole, and the advance has completed.
HyperspaceJumped ==
  \E i, j \in DOMAIN last.log :
    /\ Completes(last.log, i, j)
    /\ Drawn(last.log, i, j, "GravitationalAnomaly") = {}
    /\ Drawn(last.log, i, j, "WormHole") = {}
    /\ last.log[i + 1].ev = "space"

\* The pile without one card of a kind.
Without(pile, c) == [pile EXCEPT ![c] = @ - 1]

\* C12: GameDeck::draw (here the draw of the pickup) with an empty available
\* pile and a non-empty discard pile moves the whole discard pile to
\* available, leaves discard empty and returns one of those cards; with a
\* non-empty available pile it takes the card from there and leaves discard
\* unchanged; it does not fail while the two piles hold a card.
DrawReshuffles ==
  [][last'.op = "pickup" /\ Len_(game_deck.available) + Len_(game_deck.discard) >= 1 =>
       /\ last'.err = Ok
       /\ last'.log[1].ev = "draw"
       /\ LET c == last'.log[1].what
          IN IF Len_(game_deck.available) = 0
               THEN /\ has_card(game_deck.discard, c)
                    /\ game_deck'.available = Without(game_deck.discard, c)
                    /\ game_deck'.discard = NoCards
               ELSE /\ has_card(game_deck.available, c)
                    /\ game_deck'.available = Without(game_deck.available, c)
                    /\ game_deck'.discard = game_deck.discard]_vars

\* A pickup has just drawn from an available pile refilled from the discard
\* pile: nothing is discarded any more, and the cards are in available.
DrawReshuffled ==
  /\ last.op = "pickup"
  /\ last.err = Ok
  /\ game_deck.discard = NoCards
  /\ game_deck.top = <<>>
  /\ Len_(game_deck.available) = 2

\* C13: simulate never returns an error because of a game-rule error: such an
\* error, in the Actions phase or during the space effects of a travel, is
\* absorbed and play goes on.
NeverAborts == ~(pc = "failed" /\ last.err.kind \in SelfishError)

\* A hand of n cards of one kind.
AllOf(kind, n) == [c \in GameCard |-> IF c = kind THEN n ELSE 0]

\* The games that differ from g at most in what the hands of the players
\* other than the viewer hold (not in how many cards) and in the two decks.
Variants(g) ==
  {[g EXCEPT !.players = [p \in DOMAIN g.players |->
                            IF swapped[p] /\ p # g.whose_turn_reference
                              THEN [g.players[p] EXCEPT
                                      !.hand = AllOf("Tether", Len_(g.players[p].hand))]
                              ELSE g.players[p]],
             !.game_deck = game,
             !.space_deck = space] :
     swapped \in [DOMAIN g.players -> BOOLEAN],
     game \in {g.game_deck, GameDeck_late(<<>>)},
     space \in {g.space_deck, SpaceDeck_late(<<>>)}}

\* What the VisibleState of the game holds: whose turn it is, the viewer's
\* hand, and of every player the alive flag, the size of the hand and the
\* track; and games that differ in nothing else have the same VisibleState.
Projected ==
  LET visible_state == try_from_game(Game)
  IN /\ DOMAIN visible_state = {"whose_turn", "my_hand", "players"}
     /\ visible_state.whose_turn = whose_turn_reference
     /\ visible_state.my_hand = players[whose_turn_reference].hand
     /\ \A h \in Variants(Game) : try_from_game(h) = visible_state
     /\ \A p \in DOMAIN players :
          /\ DOMAIN visible_state.players[p] = {"alive", "hand_size", "space"}
          /\ visible_state.players[p].hand_size = Len_(players[p].hand)

\* C14: the VisibleState holds whose_turn, the viewer's hand and per player
\* only alive, hand size and track; games that differ only in the contents of
\* the other hands or in the decks project to the same VisibleState; and
\* projecting (a step that shows the state to a controller who then passes)
\* leaves the game as it was.
VisibleStateHides ==
  /\ []Projected
  /\ [][last'.op = "pass" =>
          /\ last'.log[1].ev = "update_state"
          /\ last'.log[1].state = try_from_game(Game)
          /\ UNCHANGED <<players, game_deck, space_deck, whose_turn_reference,
                         phase, game_over>>]_vars

\* A controller has just been shown the state of a game in which another
\* player holds cards of several kinds.
VisibleStateShown ==
  /\ last.op = "pass"
  /\ \E h \in Variants(Game) : h.players # players

\* The pile with one more card of a kind.
With(pile, c) == [pile EXCEPT ![c] = @ + 1]

\* The queries of a method in a log.
Asked(log, method) ==
  {i \in DOMAIN log : log[i].ev = "ask" /\ log[i].what = method}

\* The space cards drawn in a log.
Advances(log) == {i \in DOMAIN log : log[i].ev = "space"}

\* The step breathes: the player's hand loses one O1, which reaches the
\* discard pile, and nobody's track advances.
Breathes(p) ==
  /\ Advances(last'.log) = {}
  /\ players'[p].hand = Without(players[p].hand, "O1")
  /\ players'[p].space = players[p].space
  /\ game_deck'.discard = With(game_deck.discard, "O1")

\* The step travels: the player's hand loses one O2, which reaches the discard
\* pile, and the player's track advances (the hand and the pile are those
\* logged when the first space card is drawn).
Travels_(p) ==
  /\ Advances(last'.log) # {}
  /\ LET drawn == last'.log[CHOOSE i \in Advances(last'.log) :
                              \A j \in Advances(last'.log) : i <= j]
     IN /\ drawn.who = p
        /\ drawn.hand = Without(players[p].hand, "O2")
        /\ drawn.space = Append(players[p].space, drawn.what)
        /\ drawn.discard = With(game_deck.discard, "O2")

\* C15: in BreatheOrTravel the current player without O1 and O2 is
\* eliminated; with O1 only one O1 is discarded and the track does not
\* advance, with O2 only one O2 is discarded and the track advances, in both
\* cases without asking the controller; with both, breathe_or_travel is asked
\* exactly once and the choice is carried out.
BreatheOrTravelRules ==
  [][last'.op = "breathe_or_travel" =>
       LET p == whose_turn_reference
           has_o1 == has_card(players[p].hand, "O1")
           has_o2 == has_card(players[p].hand, "O2")
           asked == Asked(last'.log, "breathe_or_travel")
       IN /\ ~has_o1 /\ ~has_o2 => asked = {} /\ ~players'[p].alive
          /\ has_o1 /\ ~has_o2 => asked = {} /\ Breathes(p)
          /\ ~has_o1 /\ has_o2 => asked = {} /\ Travels_(p)
          /\ has_o1 /\ has_o2 =>
               /\ Cardinality(asked) = 1
               /\ \A i \in asked :
                    /\ last'.log[i].who = p
                    /\ last'.log[i].cards = <<"Breathe">> => Breathes(p)
                    /\ last'.log[i].cards = <<"Travel">> => Travels_(p)]_vars

\* C16: once a player's alive flag is false, no later step changes that
\* player's hand or track.
DeadAreFrozen ==
  [][\A p \in DOMAIN players :
       ~players[p].alive =>
         /\ players'[p].hand = players[p].hand
         /\ players'[p].space = players[p].space]_vars

\* The calls of Game::discard in a log: the played card leaving a hand.
Discards(log) == {i \in DOMAIN log : log[i].ev = "discard"}

\* C17: whenever action() has resolved the effect of an action and removes
\* the played card from a hand, the card is the action's card and the hand is
\* that of the actor, the player whose turn it was at the call, also when the
\* effect eliminated the target or the actor.
DiscardFromActor ==
  [][last'.op = "action" /\ last'.err = Ok =>
       \A i \in Discards(last'.log) :
         /\ last'.log[i].what = card(last'.act)
         /\ last'.log[i].who = whose_turn_reference]_vars

\* C18: a turn belongs to one player throughout: the pickup draws exactly one
\* card for the current player, and the player who is asked for actions (or
\* found in a solar flare) and who performs BreatheOrTravel is the player who
\* made the pickup of that turn.
TurnBelongsToOne ==
  [][/\ last'.op = "pickup" /\ last'.err = Ok =>
          /\ Len(last'.log) = 1
          /\ last'.log[1].ev = "draw"
          /\ last'.log[1].who = whose_turn_reference
     /\ last'.op \in {"flare", "pass", "action", "breathe_or_travel"} =>
          whose_turn_reference = began]_vars


\* The attacked player was asked defend.
AskedDefend(log) == Asked(log, "defend")

\* C19: while SolarFlare is the last entry of a player's track, simulate does
\* not ask that player play_action and applies no action of theirs: the turn
\* goes to BreatheOrTravel with no query, also when the SolarFlare was drawn in
\* the same actions loop; as a target that player is not asked defend and no
\* Shield is discarded; and defend is asked only of the target of the action,
\* holding a Shield.
SolarFlareBlocks ==
  [][/\ (pc = "actions" /\ in_solar_flare(current_player(Game))) =>
          /\ last'.op = "flare"
          /\ last'.log = <<>>
          /\ pc' = "breathe_or_travel"
          /\ UNCHANGED <<players, game_deck, space_deck, whose_turn_reference>>
     /\ \A i \in Asked(last'.log, "play_action") :
          /\ last'.log[i].who = whose_turn_reference
          /\ ~in_solar_flare(players[last'.log[i].who])
     /\ (Attacked' /\ last'.act.target \in DOMAIN players
           /\ in_solar_flare(players[last'.act.target])) =>
          /\ AskedDefend(last'.log) = {}
          /\ game_deck'.discard["Shield"] = game_deck.discard["Shield"]
     /\ \A i \in AskedDefend(last'.log) :
          /\ Attacked'
          /\ last'.log[i].who = last'.act.target
          /\ has_card(last'.log[i].hand, "Shield")
          /\ has_card(players[last'.log[i].who].hand, "Shield")
          /\ ~in_solar_flare(players[last'.log[i].who])]_vars

\* A player who played an action earlier in the same actions loop is stopped
\* by a solar flare.
SolarFlareStopped ==
  /\ last.op = "flare"
  /\ actions_played > 0
  /\ began = whose_turn_reference


\* C20: every query of a controller (play_action, breathe_or_travel, defend,
\* forced_discard, choose_player_to_swap_with, choose_card_to_take) comes
\* after an update_state to the same controller in the same call, whose
\* VisibleState shows the hand the player holds when the query is made.
UpdateStateBeforeQuery ==
  [][\A i \in DOMAIN last'.log :
       last'.log[i].ev = "ask" =>
         \E j \in 1..(i - 1) :
           /\ last'.log[j].ev = "update_state"
           /\ last'.log[j].who = last'.log[i].who
           /\ last'.log[j].state.my_hand = last'.log[i].hand]_vars

\* The state is the one Game::new built: nothing has been done and the track
\* deck is whole.
Constructed == last.op = "new" /\ space_deck.cards = SpaceDeckNew

\* C21: right after Game::new with n controllers there are n players, each
\* alive, with an empty track and a hand of one O2 and four O1; it is player
\* 0's turn, the phase is Pickup, the game is not over, the discard pile is
\* empty and the available pile is the composition of GameDeck::new less the
\* n O2 and 4n O1 dealt.
NewGame ==
  Constructed =>
    LET n == Cardinality(DOMAIN players)
    IN /\ n \in Tables
       /\ DOMAIN players = 0..(n - 1)
       /\ \A p \in DOMAIN players :
            /\ players[p].alive
            /\ players[p].space = <<>>
            /\ players[p].hand["O2"] = 1
            /\ players[p].hand["O1"] = 4
            /\ Len_(players[p].hand) = 5
       /\ whose_turn_reference = 0
       /\ phase = "Pickup"
       /\ ~game_over
       /\ game_deck.discard = NoCards
       /\ \A c \in GameCard :
            game_deck.available[c] =
              GameDeckNew[c] - (CASE c = "O2" -> n [] c = "O1" -> 4 * n [] OTHER -> 0)

\* A game of three has just been built.
NewGameOfThree == Constructed /\ Cardinality(DOMAIN players) = 3

\* C22: CosmicRadiation and AsteroidField act on the (living) traveller only:
\* on CosmicRadiation a traveller holding an O1 loses one O1 and survives and
\* one holding none is eliminated; on AsteroidField a traveller holding two O1
\* or more loses two and survives and one holding fewer is eliminated; and no
\* other player's number of O1 or alive flag changes.
DiscardOrDieOnTraveller ==
  [][\A i \in Advances(last'.log) :
       LET space_card == last'.log[i].what
           traveller == last'.log[i].who
           had == players[traveller].hand["O1"]
           needed == IF space_card = "AsteroidField" THEN 2 ELSE 1
       IN (/\ space_card \in {"CosmicRadiation", "AsteroidField"}
           /\ players[traveller].alive) =>
            /\ had >= needed =>
                 /\ players'[traveller].alive
                 /\ players'[traveller].hand["O1"] = had - needed
            /\ had < needed => ~players'[traveller].alive
            /\ \A p \in DOMAIN players \ {traveller} :
                 /\ players'[p].hand["O1"] = players[p].hand["O1"]
                 /\ players'[p].alive = players[p].alive]_vars

\* The queries of choose_player_to_swap_with in a log.
Swaps(log) == Asked(log, "choose_player_to_swap_with")

\* C23: when the traveller draws WormHole and the controller names another
\* player of the roster, the traveller's track becomes the named player's and
\* the named player's becomes the traveller's, the WormHole just appended
\* included, and no third track changes; when it names a reference outside
\* the roster the call returns PlayerDoesNotExist and no track is swapped.
WormHoleSwaps ==
  [][\A i \in Swaps(last'.log) :
       LET traveller == last'.log[i].who
           chosen == last'.log[i].n
           track == last'.log[i].space
       IN /\ last_space_card(track) = "WormHole"
          /\ (chosen \in DOMAIN players /\ chosen # traveller) =>
               /\ players'[traveller].space = players[chosen].space
               /\ players'[chosen].space = track
               /\ \A p \in DOMAIN players \ {traveller, chosen} :
                    players'[p].space = players[p].space
          /\ chosen \notin DOMAIN players =>
               /\ last'.err = PlayerDoesNotExist(chosen)
               /\ players'[traveller].space = track
               /\ \A p \in DOMAIN players \ {traveller} :
                    players'[p].space = players[p].space]_vars

\* At a table of three a traveller has just swapped a track of their own with
\* a different track of another player.
WormHoleSwapped ==
  /\ last.err = Ok
  /\ Cardinality(DOMAIN players) = 3
  /\ \E i \in Swaps(last.log) :
       /\ last.log[i].n \in DOMAIN players \ {last.log[i].who}
       /\ players[last.log[i].n].space = last.log[i].space
       /\ players[last.log[i].who].space # last.log[i].space

\* The eliminations in a log.
Deaths(log) == {i \in DOMAIN log : log[i].ev = "died"}

\* C24: an undefended OxygenSiphon that passes the checks of action(), on a
\* target holding two O1 or more: the target holds two O1 fewer and nothing
\* else of theirs changes, the actor holds one O1 more, nobody is eliminated
\* (a living target stays alive) and whose_turn is unchanged.
SiphonTakesTwo ==
  [][(/\ Attacked'
      /\ last'.act.kind = "OxygenSiphon"
      /\ validate(Game, last'.act).err = Ok
      /\ count_cards(players[last'.act.target].hand, "O1") >= 2
      /\ ~Defended(last'.log)) =>
       LET target == last'.act.target
           actor == whose_turn_reference
       IN /\ players'[target].hand =
               remove_one(remove_one(players[target].hand, "O1"), "O1")
          /\ players'[actor].hand["O1"] = players[actor].hand["O1"] + 1
          /\ \A p \in DOMAIN players : players'[p].alive = players[p].alive
          /\ Deaths(last'.log) = {}
          /\ whose_turn_reference' = whose_turn_reference]_vars

\* A holder of an OxygenSiphon has just played it, undefended, on a living
\* player who had oxygen to spare.
SiphonTookTwo ==
  /\ Attacked
  /\ last.act.kind = "OxygenSiphon"
  /\ last.err = Ok
  /\ ~Defended(last.log)
  /\ Deaths(last.log) = {}
  /\ players[last.act.target].alive

\* The number of cards the target must hold for the action to be accepted.
Required(kind) ==
  CASE kind = "OxygenSiphon" -> 2
    [] kind \in {"HackSuit", "TractorBeam"} -> 1
    [] OTHER -> 0

\* C25: an action on another player of the roster that steals more cards than
\* the target's hand holds (2 for OxygenSiphon, 1 for HackSuit and
\* TractorBeam, cards of any kind counted) returns
\* PlayerDoesNotHaveEnoughCards(target, count), with no controller queried and
\* no hand, track, alive flag or pile changed; and action() returns that error
\* in no other case.
StealNeedsCards ==
  [][last'.op = "action" =>
       LET target == last'.act.target
           count == Required(last'.act.kind)
           short == /\ target \in DOMAIN players \ {whose_turn_reference}
                    /\ count > Len_(players[target].hand)
       IN /\ short =>
               /\ last'.err = PlayerDoesNotHaveEnoughCards(target, count)
               /\ Queries(last'.log) = {}
               /\ UNCHANGED <<players, game_deck, space_deck, whose_turn_reference>>
          /\ last'.err.kind = "PlayerDoesNotHaveEnoughCards" => short]_vars

\* An OxygenSiphon has just been refused on a target holding a single card.
StealRefused ==
  /\ Attacked
  /\ last.act.kind = "OxygenSiphon"
  /\ last.err.kind = "PlayerDoesNotHaveEnoughCards"
  /\ Len_(players[last.act.target].hand) = 1

\* The Hyperspace cards drawn in a log.
Jumps(log) == {i \in Advances(log) : log[i].what = "Hyperspace"}

\* C26: no space card returns to the space deck, so one call of add_space
\* draws a Hyperspace at most as often as the deck held one when the call
\* began, and advances the traveller at most once more than that.
HyperspaceBounded ==
  [][/\ \A s \in SpaceCard : space_deck'.cards[s] <= space_deck.cards[s]
     /\ last'.op \in {"action", "breathe_or_travel"} =>
          /\ Cardinality(Jumps(last'.log)) =
               space_deck.cards["Hyperspace"] - space_deck'.cards["Hyperspace"]
          /\ Cardinality(Jumps(last'.log)) <= space_deck.cards["Hyperspace"]
          /\ Cardinality(Advances(last'.log)) <= Cardinality(Jumps(last'.log)) + 1
          /\ Cardinality(Advances(last'.log)) <= space_deck.cards["Hyperspace"] + 1]_vars

\* A call of add_space has just used up the last Hyperspace of the deck.
HyperspaceUsedUp ==
  /\ Jumps(last.log) # {}
  /\ space_deck.cards["Hyperspace"] = 0
  /\ Cardinality(Advances(last.log)) = Cardinality(Jumps(last.log)) + 1

\* C27: in a run of simulate no phase assertion fails: at the top of the loop,
\* where draw_card_phase is entered, the phase is Pickup; in the actions loop,
\* where action() is entered, and where breathe_or_travel is entered the
\* phase is Actions.
PhaseAssertionsHold ==
  /\ last.err # Panic("assert")
  /\ pc = "loop" => phase = "Pickup"
  /\ pc \in {"actions", "breathe_or_travel"} => phase = "Actions"

\* A turn has run through its three phases and simulate is back at the top
\* of its loop.
TurnCompleted ==
  /\ pc = "loop"
  /\ last.op = "breathe_or_travel"
  /\ last.err = Ok
  /\ ~game_over

\* C28: once game_over is true it stays true, and from then on no hand, track
\* or alive flag changes, no card leaves either deck and no controller is
\* queried.
GameOverIsFinal ==
  [][game_over =>
       /\ game_over'
       /\ UNCHANGED <<players, game_deck, space_deck>>
       /\ \A i \in DOMAIN last'.log : last'.log[i].ev # "ask"]_vars

\* C29: no controller of a dead player is asked anything (every query in a
\* call is put to a player alive when the call began; no query follows a death
\* within a call), and no dead player is eliminated again.
DeadAreNotAsked ==
  [][/\ \A i \in DOMAIN last'.log :
          (last'.log[i].ev = "ask" /\ last'.log[i].who \in DOMAIN players) =>
            players[last'.log[i].who].alive
     /\ \A i \in Deaths(last'.log) :
          /\ players[last'.log[i].who].alive
          /\ \A j \in Deaths(last'.log) :
               last'.log[j].who = last'.log[i].who => j = i]_vars

====
